---- MODULE Spec2Model ----
(***************************************************************************)
(* Model of the three-word-sequence counter: the text normaliser           *)
(* (formatText), the trigram counter (generateSequenceMap), the ranker     *)
(* (getTopSequences), the work partitioner (splitArrayToNChunks), the      *)
(* worker unit (processAndAnalyzeFiles) and the coordinator (main,         *)
(* processFilesInParallel, processFilesAsOne, processStdIn).               *)
(*                                                                         *)
(* A JavaScript string is a sequence of one-character strings.  A Map is   *)
(* a sequence of <<key, value>> pairs in insertion order, keys distinct.   *)
(***************************************************************************)
EXTENDS Integers, Sequences, FiniteSets, TLC

VARIABLES
    argv,          \* parsed command line: files, threads, positional (_)
    stdin,         \* the lines readline will deliver
    pc,            \* position of the main thread
    mode,          \* which processing function main selected
    threadCount,   \* THREAD_COUNT computed by main
    workers,       \* worker threads, by dispatch index
    ports,         \* messages posted by workers, not yet handled by main
    promises,      \* the promises returned by createWorker, by dispatch index
    arrivals,      \* dispatch indices in the order their messages were handled
    topSequences,  \* the list main hands to logSequences
    stdout,        \* what console.log has written
    exitCode,      \* status of the process once it has ended
    input,         \* argument of a library function called on its own
    output         \* what that function returned

vars == <<argv, stdin, pc, mode, threadCount, workers, ports, promises,
          arrivals, topSequences, stdout, exitCode, input, output>>

mainVars == <<argv, stdin, pc, mode, threadCount, workers, ports, promises,
              arrivals, topSequences, stdout, exitCode>>

----------------------------------------------------------------------------
(* Bounds of the model *)

MaxFiles == 3
MaxLines == 3
MaxArrayLen == 5
MaxChunks == 4
MaxRawLen == 3
MaxQuoteLen == 7
MaxTokens == 6
MaxTableSize == 3
MaxCount == 3

----------------------------------------------------------------------------
(* Characters *)

\* A character is a one-character string.  The characters of the model are
\* those from U+0000 to U+00FF, written as themselves, and the code points
\* listed below by name ("U+0301"), which a string of this module cannot
\* hold.  A character in none of the sets below is neither a letter nor a
\* mark nor white space.

\* the letters with a lower-case form of their own, and that form
UpperSeq == <<"A", "B", "C", "D", "E", "F", "G", "H", "I", "J", "K", "L",
              "M", "N", "O", "P", "Q", "R", "S", "T", "U", "V", "W", "X",
              "Y", "Z", "À", "Á", "Â", "Ã", "Ä", "Å", "Æ", "Ç", "È", "É",
              "Ê", "Ë", "Ì", "Í", "Î", "Ï", "Ð", "Ñ", "Ò", "Ó", "Ô", "Õ",
              "Ö", "Ø", "Ù", "Ú", "Û", "Ü", "Ý", "Þ">>
LowerSeq == <<"a", "b", "c", "d", "e", "f", "g", "h", "i", "j", "k", "l",
              "m", "n", "o", "p", "q", "r", "s", "t", "u", "v", "w", "x",
              "y", "z", "à", "á", "â", "ã", "ä", "å", "æ", "ç", "è", "é",
              "ê", "ë", "ì", "í", "î", "ï", "ð", "ñ", "ò", "ó", "ô", "õ",
              "ö", "ø", "ù", "ú", "û", "ü", "ý", "þ">>

\* letters that toLowerCase leaves alone and that are not in LowerSeq
CaselessLetters == {"ª", "µ", "º", "ß", "ÿ", "U+0E01", "U+0E02", "U+0E03",
                    "U+0E04", "U+0E05", "U+0E06", "U+0E07", "U+0E08", "U+0E09",
                    "U+0E0A", "U+0E0B", "U+0E0C", "U+0E0D", "U+0E0E", "U+0E0F",
                    "U+0E10", "U+0E11", "U+0E12", "U+0E13", "U+0E14", "U+0E15",
                    "U+0E16", "U+0E17", "U+0E18", "U+0E19", "U+0E1A", "U+0E1B",
                    "U+0E1C", "U+0E1D", "U+0E1E", "U+0E1F", "U+0E23", "U+0E42"}

\* \p{Letter}
Letters == {LowerSeq[i] : i \in 1..Len(LowerSeq)}
           \cup {UpperSeq[i] : i \in 1..Len(UpperSeq)}
           \cup CaselessLetters

\* \p{Mark}: the combining acute accent and the combining diaeresis
Marks == {"U+0301", "U+0308"}

\* \s, which is also what trim() removes; the character after "\f" is the
\* no-break space U+00A0
Whitespace == {" ", "\n", "\t", "\r", "\f", " ",
               "U+000B", "U+1680", "U+2000", "U+2001", "U+2002", "U+2003",
               "U+2004", "U+2005", "U+2006", "U+2007", "U+2008", "U+2009",
               "U+200A", "U+2028", "U+2029", "U+202F", "U+205F", "U+3000",
               "U+FEFF"}

toLowerCaseChar(c) ==
    IF \E i \in 1..Len(UpperSeq) : UpperSeq[i] = c
    THEN LowerSeq[CHOOSE i \in 1..Len(UpperSeq) : UpperSeq[i] = c]
    ELSE c

MapChars(s, F(_)) == [i \in 1..Len(s) |-> F(s[i])]

toLowerCase(s) == MapChars(s, toLowerCaseChar)

----------------------------------------------------------------------------
(* formatText, one replace at a time *)

\* .replace(/[\n]/g, ' ')
NewlineToSpace(c) == IF c = "\n" THEN " " ELSE c

ReplaceNewlines(s) == MapChars(s, NewlineToSpace)

\* .replace(/[^\p{Letter}\p{Mark}\s ' -]/gu, " ")
KeptChar(c) == c \in Letters \cup Marks \cup Whitespace \cup {"'", "-"}

OtherToSpace(c) == IF KeptChar(c) THEN c ELSE " "

ReplaceOthers(s) == MapChars(s, OtherToSpace)

\* length of the maximal run of whitespace of s that starts at position i
RECURSIVE WsRun(_, _)
WsRun(s, i) ==
    IF i <= Len(s) /\ s[i] \in Whitespace THEN 1 + WsRun(s, i + 1) ELSE 0

\* length of the match of /\s+'\s+/ at position i, 0 when there is none.
\* Both \s+ are greedy and neither can give a character back to the quote.
QuoteMatchLen(s, i) ==
    LET before == WsRun(s, i)
        q == i + before
        after == WsRun(s, q + 1)
    IN  IF before >= 1 /\ q <= Len(s) /\ s[q] = "'" /\ after >= 1
        THEN before + 1 + after
        ELSE 0

\* .replace(/\s+'\s+/g, ' '): matches are taken left to right and the scan
\* resumes after the end of each match
RECURSIVE ReplaceQuotesFrom(_, _)
ReplaceQuotesFrom(s, i) ==
    IF i > Len(s) THEN <<>>
    ELSE LET m == QuoteMatchLen(s, i)
         IN  IF m > 0 THEN <<" ">> \o ReplaceQuotesFrom(s, i + m)
                      ELSE <<s[i]>> \o ReplaceQuotesFrom(s, i + 1)

ReplaceLoneQuotes(s) == ReplaceQuotesFrom(s, 1)

\* .replace(/\s+/g, ' ')
RECURSIVE CollapseFrom(_, _)
CollapseFrom(s, i) ==
    IF i > Len(s) THEN <<>>
    ELSE LET m == WsRun(s, i)
         IN  IF m > 0 THEN <<" ">> \o CollapseFrom(s, i + m)
                      ELSE <<s[i]>> \o CollapseFrom(s, i + 1)

CollapseWhitespace(s) == CollapseFrom(s, 1)

\* .trim()
RECURSIVE TrimEnd(_)
TrimEnd(s) ==
    IF Len(s) > 0 /\ s[Len(s)] \in Whitespace
    THEN TrimEnd(SubSeq(s, 1, Len(s) - 1))
    ELSE s

trim(s) == TrimEnd(SubSeq(s, WsRun(s, 1) + 1, Len(s)))

formatText(text) ==
    trim(CollapseWhitespace(ReplaceLoneQuotes(ReplaceOthers(
        ReplaceNewlines(toLowerCase(text))))))

----------------------------------------------------------------------------
(* generateSequenceMap *)

\* index of the first " " of s at or after i, 0 when there is none
RECURSIVE IndexOfSpace(_, _)
IndexOfSpace(s, i) ==
    IF i > Len(s) THEN 0
    ELSE IF s[i] = " " THEN i ELSE IndexOfSpace(s, i + 1)

\* text.split(" "): the empty string splits into one empty token
RECURSIVE split(_)
split(s) ==
    LET k == IndexOfSpace(s, 1)
    IN  IF k = 0 THEN <<s>>
        ELSE <<SubSeq(s, 1, k - 1)>> \o split(SubSeq(s, k + 1, Len(s)))

\* array.join(' ')
RECURSIVE join(_)
join(a) ==
    IF Len(a) = 0 THEN <<>>
    ELSE IF Len(a) = 1 THEN a[1]
    ELSE a[1] \o <<" ">> \o join(Tail(a))

Min(a, b) == IF a < b THEN a ELSE b

\* array.slice(from, to) with 0-based bounds, 0 <= from
slice(a, from, to) == SubSeq(a, from + 1, Min(to, Len(a)))

MapHas(m, k) == \E i \in 1..Len(m) : m[i][1] = k

MapGet(m, k) == m[CHOOSE i \in 1..Len(m) : m[i][1] = k][2]

\* Map.set: an existing key keeps its place, a new key goes last
MapSet(m, k, v) ==
    IF MapHas(m, k)
    THEN [i \in 1..Len(m) |-> IF m[i][1] = k THEN <<k, v>> ELSE m[i]]
    ELSE Append(m, <<k, v>>)

\* a counter that forgets the occurrences already counted
CountSequenceOnce(sequenceMap, sequenceText) == MapSet(sequenceMap, sequenceText, 1)

\* one turn of the loop of generateSequenceMap
CountSequence(sequenceMap, sequenceText) ==
    IF MapHas(sequenceMap, sequenceText)
    THEN MapSet(sequenceMap, sequenceText, MapGet(sequenceMap, sequenceText) + 1)
    ELSE MapSet(sequenceMap, sequenceText, 1)

RECURSIVE SequenceLoop(_, _, _)
SequenceLoop(textArray, leftIndex, sequenceMap) ==
    IF ~(leftIndex < Len(textArray)) THEN sequenceMap
    ELSE LET sequenceArray == slice(textArray, leftIndex, leftIndex + 3)
         IN  IF Len(sequenceArray) < 3 THEN sequenceMap
             ELSE SequenceLoop(textArray, leftIndex + 1,
                               CountSequence(sequenceMap, join(sequenceArray)))

generateSequenceMap(text) == SequenceLoop(split(text), 0, <<>>)

----------------------------------------------------------------------------
(* getTopSequences *)

\* the comparator written the other way round: (a, b) => a[1] - b[1]
CompareAscending(a, b) == a[2] - b[2]

\* the comparator (a, b) => b[1] - a[1]
Compare(a, b) == b[2] - a[2]

\* Array.prototype.sort is stable: e goes after every element that the
\* comparator does not place after it
RECURSIVE InsertSorted(_, _)
InsertSorted(sorted, e) ==
    IF Len(sorted) = 0 THEN <<e>>
    ELSE IF Compare(sorted[Len(sorted)], e) <= 0 THEN Append(sorted, e)
    ELSE Append(InsertSorted(SubSeq(sorted, 1, Len(sorted) - 1), e),
                sorted[Len(sorted)])

RECURSIVE SortFrom(_, _, _)
SortFrom(a, i, sorted) ==
    IF i > Len(a) THEN sorted
    ELSE SortFrom(a, i + 1, InsertSorted(sorted, a[i]))

getTopSequences(sequenceMap) == SortFrom(sequenceMap, 1, <<>>)

analyzeText(text) == getTopSequences(generateSequenceMap(text))

----------------------------------------------------------------------------
(* splitArrayToNChunks *)

\* a rounding up that adds one even when b divides a
MathCeilDivPlusOne(a, b) == (a \div b) + 1

\* Math.ceil(a / b) for integers a and b > 0
MathCeilDiv(a, b) == -((-a) \div b)

\* the loop with array.slice(arrPos, splitArrayLength): the end of the slice
\* is not moved along with its start
RECURSIVE SplitLoopShortSlice(_, _, _, _, _)
SplitLoopShortSlice(array, n, i, arrPos, splitArray) ==
    IF ~(i < n) THEN splitArray
    ELSE LET splitArrayLength == -((-(Len(array) - arrPos)) \div (n - i))
         IN  SplitLoopShortSlice(array, n, i + 1, arrPos + splitArrayLength,
                                 Append(splitArray,
                                        SubSeq(array, arrPos + 1, splitArrayLength)))

RECURSIVE SplitLoop(_, _, _, _, _)
SplitLoop(array, n, i, arrPos, splitArray) ==
    IF ~(i < n) THEN splitArray
    ELSE LET splitArrayLength == MathCeilDiv(Len(array) - arrPos, n - i)
         IN  SplitLoop(array, n, i + 1, arrPos + splitArrayLength,
                       Append(splitArray,
                              slice(array, arrPos, splitArrayLength + arrPos)))

splitArrayToNChunks(array, n) == SplitLoop(array, n, 0, 0, <<>>)

----------------------------------------------------------------------------
(* The file system and the command line *)

FileA == <<"a", ".", "t", "x", "t">>
FileB == <<"b", ".", "t", "x", "t">>
FileE == <<"e", ".", "t", "x", "t">>
FileJs == <<"c", ".", "j", "s">>
FileMissing == <<"m", ".", "t", "x", "t">>

FileNames == {FileA, FileB, FileE, FileJs, FileMissing}

\* the files that exist, with their contents; reading any other name fails
ExistingFiles == {FileA, FileB, FileE, FileJs}

ReadFile(file) ==
    CASE file = FileA -> <<"A", " ", "b", ".", "a", "\n", "a", " ", "b", " ", "a">>
      [] file = FileB -> <<"b", " ", "a", "'", "b", " ", "-", "a", ".">>
      [] file = FileE -> <<" ", ".", "\n">>
      [] file = FileJs -> <<"a", " ", "b", " ", "a">>

\* file.endsWith(suffix)
endsWith(s, suffix) ==
    /\ Len(s) >= Len(suffix)
    /\ SubSeq(s, Len(s) - Len(suffix) + 1, Len(s)) = suffix

DotTxt == <<".", "t", "x", "t">>

\* os.cpus().length of the host
MAX_THREADS == 3

\* logSequences prints at most this many lines for a unit
TopN == 100

Undefined == [kind |-> "undefined"]
NaN == [kind |-> "NaN"]
\* a number given to -t, in tenths
Num(tenths) == [kind |-> "number", tenths |-> tenths]

\* !!value for what yargs puts in argv.threads
Truthy(v) == v.kind = "number" /\ v.tenths # 0

\* Number.isNaN(value)
IsNaN(v) == v.kind = "NaN"

\* value > MAX_THREADS: false for undefined and NaN
ExceedsMax(v) == v.kind = "number" /\ v.tenths > 10 * MAX_THREADS

\* Math.round of a number in tenths: halves go up
MathRound(tenths) == (tenths + 5) \div 10

\* line 43
THREAD_COUNT(threads) ==
    IF Truthy(threads) /\ ~IsNaN(threads)
    THEN Min(MathRound(threads.tenths), MAX_THREADS)
    ELSE 1

\* line 45: input given without --files
UsageError(a) == a.positional > 0 /\ a.files = Undefined

\* line 50
FilesGiven(a) == a.files # Undefined /\ Len(a.files.list) > 0

\* the selection with the thread count compared with the default of 1
SelectModeAboveDefault(a) ==
    IF a.threads.kind = "number" /\ a.threads.tenths > 10
    THEN "processFilesInParallel"
    ELSE IF FilesGiven(a) THEN "processFilesAsOne" ELSE "processStdIn"

\* lines 50-57: the function main calls
SelectMode(a) ==
    IF FilesGiven(a)
    THEN IF Truthy(a.threads) THEN "processFilesInParallel"
                              ELSE "processFilesAsOne"
    ELSE "processStdIn"

RECURSIVE SeqsUpTo(_, _)
SeqsUpTo(S, n) ==
    IF n = 0 THEN {<<>>}
    ELSE LET shorter == SeqsUpTo(S, n - 1)
         IN  shorter \cup {Append(s, x) : s \in shorter, x \in S}

ThreadArgs == {Undefined, NaN} \cup {Num(t) : t \in {-10, 0, 4, 10, 20, 30, 40}}

FileArgs == {Undefined} \cup
            {[kind |-> "array", list |-> l] : l \in SeqsUpTo(FileNames, MaxFiles)}

StdinLines == {<<>>, <<"A", " ", "b">>, <<"a", ".", " ", "'", " ", "b">>}

StdinLabel == <<"s", "t", "d", "i", "n">>

----------------------------------------------------------------------------
(* Worker unit: processAndAnalyzeFiles *)

NewWorker(fileChunk) ==
    [files |-> fileChunk, next |-> 1, invalidFiles |-> <<>>,
     sequences |-> <<>>, status |-> "running"]

\* a turn that leaves the loop at an invalid file instead of going on
WorkerTurnStopAtInvalid(w) ==
    LET file == w.files[w.next]
    IN  IF ~endsWith(file, DotTxt)
        THEN [w EXCEPT !.invalidFiles = Append(@, file), !.next = Len(w.files) + 1]
        ELSE IF file \notin ExistingFiles
        THEN [w EXCEPT !.status = "exited"]
        ELSE [w EXCEPT !.sequences =
                           Append(@, [file |-> file,
                                      sequences |-> analyzeText(formatText(ReadFile(file)))]),
                       !.next = @ + 1]

\* one turn of the loop over workerData.files; a failed read rejects the
\* async function, whose catch handler calls process.exit(1), which in a
\* worker thread ends that thread only
WorkerTurn(w) ==
    LET file == w.files[w.next]
    IN  IF ~endsWith(file, DotTxt)
        THEN [w EXCEPT !.invalidFiles = Append(@, file), !.next = @ + 1]
        ELSE IF file \notin ExistingFiles
        THEN [w EXCEPT !.status = "exited"]
        ELSE [w EXCEPT !.sequences =
                           Append(@, [file |-> file,
                                      sequences |-> analyzeText(formatText(ReadFile(file)))]),
                       !.next = @ + 1]

WorkerMessage(w) == [invalidFiles |-> w.invalidFiles, sequences |-> w.sequences]

----------------------------------------------------------------------------
(* Coordinator *)

Fulfilled(data) == [state |-> "fulfilled", value |-> data]

\* a promise settled before its worker has answered
ResolvedAtOnce == Fulfilled([invalidFiles |-> <<>>, sequences |-> <<>>])

\* the promise createWorker returns
Pending == [state |-> "pending"]

RECURSIVE Flatten(_)
Flatten(ss) == IF Len(ss) = 0 THEN <<>> ELSE ss[1] \o Flatten(Tail(ss))

\* the values in the order the workers answered
FileOutputByArrival(ps, arrived) == [i \in 1..Len(ps) |-> ps[arrived[i]].value]

\* what await Promise.all(topSequencesPromises) yields: the values by index
FileOutput(ps, arrived) == [i \in 1..Len(ps) |-> ps[i].value]

\* lines 168-173
MergeInvalidFiles(fileOutput) ==
    Flatten([i \in 1..Len(fileOutput) |-> fileOutput[i].invalidFiles])

MergeSequences(fileOutput) ==
    Flatten([i \in 1..Len(fileOutput) |-> fileOutput[i].sequences])

InvalidReport(invalidFiles) ==
    IF Len(invalidFiles) > 0
    THEN <<[kind |-> "invalid", files |-> invalidFiles]>>
    ELSE <<>>

\* lines 35-41
Warnings(threads) ==
    (IF ExceedsMax(threads) THEN <<[kind |-> "maxThreads"]>> ELSE <<>>)
    \o (IF IsNaN(threads) THEN <<[kind |-> "invalidThreads"]>> ELSE <<>>)

\* the loop of processFilesAsOne from files[i] on
RECURSIVE AsOneLoop(_, _, _, _)
AsOneLoop(files, i, text, invalidFiles) ==
    IF i > Len(files)
    THEN [failed |-> FALSE, text |-> text, invalidFiles |-> invalidFiles]
    ELSE IF ~endsWith(files[i], DotTxt)
    THEN AsOneLoop(files, i + 1, text, Append(invalidFiles, files[i]))
    ELSE IF files[i] \notin ExistingFiles
    THEN [failed |-> TRUE, text |-> text, invalidFiles |-> invalidFiles]
    ELSE AsOneLoop(files, i + 1,
                   text \o <<" ">> \o formatText(ReadFile(files[i])),
                   invalidFiles)

\* the loop of processStdIn
RECURSIVE StdInLoop(_, _, _)
StdInLoop(lines, i, text) ==
    IF i > Len(lines) THEN trim(text)
    ELSE StdInLoop(lines, i + 1, text \o <<" ">> \o formatText(lines[i]))

LogEntry(ts) ==
    IF Len(ts.sequences) > 0
    THEN [kind |-> "top", file |-> ts.file, lines |-> slice(ts.sequences, 0, TopN)]
    ELSE [kind |-> "none"]

logSequences(ts) == [i \in 1..Len(ts) |-> LogEntry(ts[i])]

NoCall == [fn |-> "main"]

Init ==
    /\ argv \in [files : FileArgs, threads : ThreadArgs, positional : 0..1]
    /\ stdin \in (IF FilesGiven(argv) \/ UsageError(argv)
                  THEN {<<>>} ELSE SeqsUpTo(StdinLines, MaxLines))
    /\ pc = "main"
    /\ mode = "none"
    /\ threadCount = 1
    /\ workers = <<>>
    /\ ports = <<>>
    /\ promises = <<>>
    /\ arrivals = <<>>
    /\ topSequences = <<>>
    /\ stdout = <<>>
    /\ exitCode = -1
    /\ input = NoCall
    /\ output = <<>>

\* main, lines 33-48, when input is given without --files: the throw rejects
\* main(), and its catch handler exits with status 1
MainUsageError ==
    /\ pc = "main"
    /\ UsageError(argv)
    /\ stdout' = stdout \o Warnings(argv.threads)
    /\ threadCount' = THREAD_COUNT(argv.threads)
    /\ pc' = "exited"
    /\ exitCode' = 1
    /\ UNCHANGED <<argv, stdin, mode, workers, ports, promises, arrivals,
                   topSequences, input, output>>

\* main, lines 33-57, up to the call of the processing function
Main ==
    /\ pc = "main"
    /\ ~UsageError(argv)
    /\ stdout' = stdout \o Warnings(argv.threads)
    /\ threadCount' = THREAD_COUNT(argv.threads)
    /\ mode' = SelectMode(argv)
    /\ pc' = SelectMode(argv)
    /\ UNCHANGED <<argv, stdin, workers, ports, promises, arrivals,
                   topSequences, exitCode, input, output>>

\* processFilesInParallel, lines 164-165, up to the await
ProcessFilesInParallel ==
    /\ pc = "processFilesInParallel"
    /\ LET fileChunks == splitArrayToNChunks(argv.files.list, threadCount)
       IN  /\ workers' = [i \in 1..Len(fileChunks) |-> NewWorker(fileChunks[i])]
           /\ ports' = [i \in 1..Len(fileChunks) |-> <<>>]
           /\ promises' = [i \in 1..Len(fileChunks) |-> Pending]
    /\ pc' = "awaitAll"
    /\ UNCHANGED <<argv, stdin, mode, threadCount, arrivals, topSequences,
                   stdout, exitCode, input, output>>

\* a worker handles its next file
WorkerStep(i) ==
    /\ workers[i].status = "running"
    /\ workers[i].next <= Len(workers[i].files)
    /\ workers' = [workers EXCEPT ![i] = WorkerTurn(@)]
    /\ UNCHANGED <<argv, stdin, pc, mode, threadCount, ports, promises,
                   arrivals, topSequences, stdout, exitCode, input, output>>

\* a worker is through its files: parentPort.postMessage
WorkerPost(i) ==
    /\ workers[i].status = "running"
    /\ workers[i].next > Len(workers[i].files)
    /\ workers' = [workers EXCEPT ![i].status = "posted"]
    /\ ports' = [ports EXCEPT ![i] = <<WorkerMessage(workers[i])>>]
    /\ UNCHANGED <<argv, stdin, pc, mode, threadCount, promises, arrivals,
                   topSequences, stdout, exitCode, input, output>>

\* createWorker's "message" handler resolves the worker's promise
OnMessage(i) ==
    /\ pc = "awaitAll"
    /\ Len(ports[i]) > 0
    /\ promises' = [promises EXCEPT ![i] = Fulfilled(ports[i][1])]
    /\ ports' = [ports EXCEPT ![i] = <<>>]
    /\ arrivals' = Append(arrivals, i)
    /\ UNCHANGED <<argv, stdin, pc, mode, threadCount, workers, topSequences,
                   stdout, exitCode, input, output>>

AllFulfilled == \A i \in 1..Len(promises) : promises[i].state = "fulfilled"

\* processFilesInParallel, lines 166-179, once Promise.all has resolved
MergeResults ==
    /\ pc = "awaitAll"
    /\ AllFulfilled
    /\ LET fileOutput == FileOutput(promises, arrivals)
       IN  /\ topSequences' = MergeSequences(fileOutput)
           /\ stdout' = stdout \o InvalidReport(MergeInvalidFiles(fileOutput))
    /\ pc' = "logSequences"
    /\ UNCHANGED <<argv, stdin, mode, threadCount, workers, ports, promises,
                   arrivals, exitCode, input, output>>

\* no worker runs, no message waits, and Promise.all is still pending:
\* nothing keeps the event loop alive and the process ends
EventLoopEmpty ==
    /\ pc = "awaitAll"
    /\ ~AllFulfilled
    /\ \A i \in 1..Len(workers) :
           workers[i].status # "running" /\ Len(ports[i]) = 0
    /\ pc' = "exited"
    /\ exitCode' = 0
    /\ UNCHANGED <<argv, stdin, mode, threadCount, workers, ports, promises,
                   arrivals, topSequences, stdout, input, output>>

\* processFilesAsOne
ProcessFilesAsOne ==
    /\ pc = "processFilesAsOne"
    /\ LET r == AsOneLoop(argv.files.list, 1, <<>>, <<>>)
       IN  IF r.failed
           THEN /\ pc' = "exited"
                /\ exitCode' = 1
                /\ UNCHANGED <<topSequences, stdout>>
           ELSE /\ topSequences' = <<[file |-> argv.files.list,
                                      sequences |-> analyzeText(trim(r.text))]>>
                /\ stdout' = stdout \o InvalidReport(r.invalidFiles)
                /\ pc' = "logSequences"
                /\ UNCHANGED exitCode
    /\ UNCHANGED <<argv, stdin, mode, threadCount, workers, ports, promises,
                   arrivals, input, output>>

\* processStdIn and main, lines 55-56
ProcessStdIn ==
    /\ pc = "processStdIn"
    /\ topSequences' = <<[file |-> StdinLabel,
                          sequences |-> analyzeText(StdInLoop(stdin, 1, <<>>))]>>
    /\ pc' = "logSequences"
    /\ UNCHANGED <<argv, stdin, mode, threadCount, workers, ports, promises,
                   arrivals, stdout, exitCode, input, output>>

\* main, line 60, and the normal end of the process
LogSequences ==
    /\ pc = "logSequences"
    /\ stdout' = stdout \o logSequences(topSequences)
    /\ pc' = "exited"
    /\ exitCode' = 0
    /\ UNCHANGED <<argv, stdin, mode, threadCount, workers, ports, promises,
                   arrivals, topSequences, input, output>>

Next ==
    \/ MainUsageError
    \/ Main
    \/ ProcessFilesInParallel
    \/ \E i \in 1..Len(workers) : WorkerStep(i)
    \/ \E i \in 1..Len(workers) : WorkerPost(i)
    \/ \E i \in 1..Len(ports) : OnMessage(i)
    \/ MergeResults
    \/ EventLoopEmpty
    \/ ProcessFilesAsOne
    \/ ProcessStdIn
    \/ LogSequences

Spec == Init /\ [][Next]_vars

----------------------------------------------------------------------------
(* The library functions called on their own, as the unit tests call them *)

\* the main thread does not run
MainIdle ==
    /\ argv = [files |-> Undefined, threads |-> Undefined, positional |-> 0]
    /\ stdin = <<>>
    /\ pc = "idle"
    /\ mode = "none"
    /\ threadCount = 1
    /\ workers = <<>>
    /\ ports = <<>>
    /\ promises = <<>>
    /\ arrivals = <<>>
    /\ topSequences = <<>>
    /\ stdout = <<>>
    /\ exitCode = -1

\* splitArrayToNChunks(array, n)
SplitItems == {1, 2}

InitSplit ==
    /\ MainIdle
    /\ input \in [fn : {"splitArrayToNChunks"},
                  array : SeqsUpTo(SplitItems, MaxArrayLen),
                  n : -1..MaxChunks]
    /\ output = <<>>

CallSplit ==
    /\ input.fn = "splitArrayToNChunks"
    /\ Len(output) = 0
    /\ output' = <<splitArrayToNChunks(input.array, input.n)>>
    /\ UNCHANGED <<mainVars, input>>

SpecSplit == InitSplit /\ [][CallSplit]_vars

\* formatText(text), applied to a raw text and then to its own results
RawAlphabet == {"a", "A", "É", "U+0301", " ", "\n", "\t", "\r", ".", "'", "-"}
QuoteAlphabet == {"a", "'", " "}

RawTexts == SeqsUpTo(RawAlphabet, MaxRawLen) \cup SeqsUpTo(QuoteAlphabet, MaxQuoteLen)

InitFormat ==
    /\ MainIdle
    /\ input \in [fn : {"formatText"}, text : RawTexts]
    /\ output = <<>>

CallFormat ==
    /\ input.fn = "formatText"
    /\ Len(output) < 2
    /\ output' = Append(output, formatText(IF Len(output) = 0 THEN input.text
                                                              ELSE output[Len(output)]))
    /\ UNCHANGED <<mainVars, input>>

SpecFormat == InitFormat /\ [][CallFormat]_vars

\* generateSequenceMap(text) on normalized texts
Tokens == {<<"a">>, <<"b">>, <<"a", "-", "b">>}

InitSequenceMap ==
    /\ MainIdle
    /\ input \in {[fn |-> "generateSequenceMap", tokens |-> t, text |-> join(t)] :
                     t \in SeqsUpTo(Tokens, MaxTokens)}
    /\ output = <<>>

CallSequenceMap ==
    /\ input.fn = "generateSequenceMap"
    /\ Len(output) = 0
    /\ output' = <<generateSequenceMap(input.text)>>
    /\ UNCHANGED <<mainVars, input>>

SpecSequenceMap == InitSequenceMap /\ [][CallSequenceMap]_vars

\* getTopSequences(sequenceMap) on frequency tables
TableKeys == {join(<<x, y, <<"a">>>>) : x, y \in {<<"a">>, <<"b">>}}

IsTable(m) == \A i, j \in 1..Len(m) : m[i][1] = m[j][1] => i = j

Tables == {m \in SeqsUpTo(TableKeys \X (1..MaxCount), MaxTableSize) : IsTable(m)}

InitTop ==
    /\ MainIdle
    /\ input \in [fn : {"getTopSequences"}, sequenceMap : Tables]
    /\ output = <<>>

CallTop ==
    /\ input.fn = "getTopSequences"
    /\ Len(output) = 0
    /\ output' = <<getTopSequences(input.sequenceMap)>>
    /\ UNCHANGED <<mainVars, input>>

SpecTop == InitTop /\ [][CallTop]_vars

----------------------------------------------------------------------------
(* Properties *)

SplitCalled == input.fn = "splitArrayToNChunks" /\ Len(output) = 1

\* C1: for n >= 1 the chunks of splitArrayToNChunks(array, n), concatenated
\* in order, are the array: every item once, in its place.
C1_RoundTrip ==
    (SplitCalled /\ input.n >= 1) => Flatten(output[1]) = input.array

C1_Witness ==
    /\ SplitCalled
    /\ input.n = 3
    /\ input.array = <<1, 2, 1, 2, 1>>
    /\ output[1] = << <<1, 2>>, <<1, 2>>, <<1>> >>

\* C2: for n >= 1 there are n chunks, each of floor(N/n) or ceil(N/n) items,
\* so the largest and the smallest differ by at most one.
C2_ChunkBalance ==
    (SplitCalled /\ input.n >= 1) =>
        LET N == Len(input.array)
            T == input.n
            chunks == output[1]
        IN  /\ Len(chunks) = T
            /\ \A i \in 1..Len(chunks) :
                   Len(chunks[i]) \in {N \div T, (N + T - 1) \div T}
            /\ \A i, j \in 1..Len(chunks) : Len(chunks[i]) - Len(chunks[j]) <= 1

C2_Witness ==
    /\ SplitCalled
    /\ input.n = 4
    /\ Len(input.array) = 5
    /\ [i \in 1..4 |-> Len(output[1][i])] = <<2, 1, 1, 1>>

SequenceMapCalled == input.fn = "generateSequenceMap" /\ Len(output) = 1

\* the trigram that starts at token i of the token list t
TrigramAt(t, i) == t[i] \o <<" ">> \o t[i + 1] \o <<" ">> \o t[i + 2]

\* C3: the table of generateSequenceMap has exactly the distinct trigrams of
\* the token list as keys, each with the number of start positions where it
\* occurs; with fewer than three tokens it is empty.
C3_SequenceMap ==
    SequenceMapCalled =>
        LET t == input.tokens
            starts == 1..(Len(t) - 2)
            table == output[1]
        IN  /\ IsTable(table)
            /\ {table[k][1] : k \in 1..Len(table)} = {TrigramAt(t, i) : i \in starts}
            /\ \A k \in 1..Len(table) :
                   table[k][2] = Cardinality({i \in starts : TrigramAt(t, i) = table[k][1]})
            /\ Len(t) < 3 => table = <<>>

C3_Witness ==
    /\ SequenceMapCalled
    /\ input.tokens = <<<<"a">>, <<"a">>, <<"a">>, <<"a">>, <<"b">>>>
    /\ output[1] = << <<<<"a", " ", "a", " ", "a">>, 2>>,
                      <<<<"a", " ", "a", " ", "b">>, 1>> >>

FetchedInParallel == mode = "processFilesInParallel" /\ pc = "logSequences"

\* the File Result processAndAnalyzeFiles builds for a readable .txt file
FileResult(file) ==
    [file |-> file, sequences |-> analyzeText(formatText(ReadFile(file)))]

IsTxt(file) == endsWith(file, DotTxt)

ResultsOf(files) ==
    LET valid == SelectSeq(files, IsTxt)
    IN  [k \in 1..Len(valid) |-> FileResult(valid[k])]

\* C4: whatever the order in which the workers answer, the merged list holds
\* the results chunk by chunk in dispatch order and, within a chunk, in the
\* order of its files; with at least one worker that is the order of the
\* valid files on the command line.
C4_MergeOrder ==
    FetchedInParallel =>
        /\ topSequences = Flatten([i \in 1..Len(workers) |-> ResultsOf(workers[i].files)])
        /\ threadCount >= 1 => topSequences = ResultsOf(argv.files.list)

C4_Witness ==
    /\ FetchedInParallel
    /\ Len(workers) = 3
    /\ arrivals = <<3, 2, 1>>
    /\ [k \in 1..Len(topSequences) |-> topSequences[k].file] = <<FileA, FileB, FileE>>

\* C5: a run in which a worker failed to read a .txt file never ends with
\* status 0.
C5_ReadFailureExitsNonZero ==
    (pc = "exited" /\ \E i \in 1..Len(workers) : workers[i].status = "exited")
        => exitCode # 0

ModeSelected == mode # "none"

ThreadsAboveOne == argv.threads.kind = "number" /\ argv.threads.tenths > 10

\* C6 as claimed: the parallel mode exactly when a thread count above 1 is
\* given, else one list for all files when files are given, else stdin.
C6_SelectionAboveOne ==
    ModeSelected =>
        /\ mode = "processFilesInParallel" <=> ThreadsAboveOne
        /\ mode = "processFilesAsOne" <=> (~ThreadsAboveOne /\ FilesGiven(argv))
        /\ mode = "processStdIn" <=> (~ThreadsAboveOne /\ ~FilesGiven(argv))

ThreadsNonZero == argv.threads.kind = "number" /\ argv.threads.tenths # 0

\* C6: when main raises no usage error, the parallel mode is used exactly
\* when a non-empty file list is given together with a thread count that is
\* a number other than 0; else one list for all files when a non-empty file
\* list is given; else stdin.  A thread count of 1 with files is parallel.
C6_Selection ==
    ModeSelected =>
        /\ mode = "processFilesInParallel" <=> (FilesGiven(argv) /\ ThreadsNonZero)
        /\ mode = "processFilesAsOne" <=> (FilesGiven(argv) /\ ~ThreadsNonZero)
        /\ mode = "processStdIn" <=> ~FilesGiven(argv)
        /\ (FilesGiven(argv) /\ argv.threads = Num(10)) =>
               mode = "processFilesInParallel"

C6_Witness ==
    /\ pc = "awaitAll"
    /\ mode = "processFilesInParallel"
    /\ argv.threads = Num(10)
    /\ Len(workers) = 1

FormatCalled == input.fn = "formatText" /\ Len(output) >= 1

\* an apostrophe on its own with white space on both sides
HasDanglingApostrophe(s) ==
    \E i \in 2..(Len(s) - 1) :
        s[i] = "'" /\ s[i - 1] \in Whitespace /\ s[i + 1] \in Whitespace

\* C7: the text formatText returns has no apostrophe standing on its own
\* between white space.
C7_NoDanglingApostrophe ==
    FormatCalled => ~HasDanglingApostrophe(output[1])

\* C8: formatText applied to a text it returned gives that text back.
C8_Idempotent ==
    (input.fn = "formatText" /\ Len(output) = 2) => output[2] = output[1]

TopCalled == input.fn = "getTopSequences" /\ Len(output) = 1

\* C9: the list of getTopSequences holds every entry of the table exactly
\* once and nothing else, and no count is followed by a larger one.
C9_Ranking ==
    TopCalled =>
        LET table == input.sequenceMap
            list == output[1]
        IN  /\ Len(list) = Len(table)
            /\ \A i \in 1..Len(table) :
                   Cardinality({j \in 1..Len(list) : list[j] = table[i]}) = 1
            /\ \A j \in 1..(Len(list) - 1) : list[j][2] >= list[j + 1][2]

C9_Witness ==
    /\ TopCalled
    /\ Len(input.sequenceMap) = 3
    /\ [i \in 1..3 |-> input.sequenceMap[i][2]] = <<1, 3, 2>>
    /\ [j \in 1..3 |-> output[1][j][2]] = <<3, 2, 1>>

\* the coordinator has merged or printed results of the parallel mode
MergedOrPrinted ==
    /\ mode = "processFilesInParallel"
    /\ \/ pc = "logSequences"
       \/ topSequences # <<>>
       \/ stdout # Warnings(argv.threads)

\* C10: in the parallel mode nothing is merged or printed before every
\* dispatched worker has posted its result and main has received it.
C10_MergeAfterAll ==
    MergedOrPrinted =>
        \A i \in 1..Len(workers) :
            /\ workers[i].status = "posted"
            /\ Len(ports[i]) = 0
            /\ promises[i] = Fulfilled(WorkerMessage(workers[i]))

C10_Witness ==
    /\ mode = "processFilesInParallel"
    /\ pc = "exited"
    /\ Len(workers) = 2
    /\ Len(topSequences) = 2
    /\ \E k \in 1..Len(stdout) : stdout[k].kind = "invalid"
    /\ \E k \in 1..Len(stdout) : stdout[k].kind = "top"

IsNotTxt(file) == ~IsTxt(file)

\* the files named in the "Invalid input" reports printed so far
RECURSIVE ReportedInvalid(_)
ReportedInvalid(out) ==
    IF Len(out) = 0 THEN <<>>
    ELSE (IF out[1].kind = "invalid" THEN out[1].files ELSE <<>>)
         \o ReportedInvalid(Tail(out))

AllReadable(files) ==
    \A k \in 1..Len(files) : IsTxt(files[k]) => files[k] \in ExistingFiles

\* C11: when main took the parallel path and every read succeeds, each
\* file of the command line is either reported invalid or has a File Result
\* in the merged list, once, whatever the thread count given.
C11_NoFileDropped ==
    (FetchedInParallel /\ AllReadable(argv.files.list)) =>
        /\ ReportedInvalid(stdout) = SelectSeq(argv.files.list, IsNotTxt)
        /\ [k \in 1..Len(topSequences) |-> topSequences[k].file]
               = SelectSeq(argv.files.list, IsTxt)

\* every key of a ranked list is three tokens, none of them empty
ThreeTokens(key) ==
    LET t == split(key)
    IN  Len(t) = 3 /\ \A k \in 1..3 : Len(t[k]) > 0

KeysWellFormed(ts) ==
    \A u \in 1..Len(ts) :
        \A k \in 1..Len(ts[u].sequences) : ThreeTokens(ts[u].sequences[k][1])

\* C12: in every mode, each key of each frequency table is three non-empty
\* tokens joined by single spaces.
C12_ThreeNonEmptyTokens == KeysWellFormed(topSequences)

\* C12 for the input read from stdin alone
C12_StdinThreeNonEmptyTokens ==
    mode = "processStdIn" => KeysWellFormed(topSequences)

\* C12 for the files read as one text alone
C12_AsOneThreeNonEmptyTokens ==
    mode = "processFilesAsOne" => KeysWellFormed(topSequences)

\* C12 for the parallel mode alone
C12_ParallelThreeNonEmptyTokens ==
    mode = "processFilesInParallel" => KeysWellFormed(topSequences)

\* C13: the message a worker posts names, in chunk order, the files of its
\* chunk that do not end in ".txt" as invalid and holds one File Result for
\* each file that does; an invalid file does not end the loop.
C13_WorkerResult ==
    \A i \in 1..Len(workers) :
        Len(ports[i]) > 0 =>
            /\ ports[i][1].invalidFiles = SelectSeq(workers[i].files, IsNotTxt)
            /\ ports[i][1].sequences = ResultsOf(workers[i].files)

C13_Witness ==
    \E i \in 1..Len(workers) :
        /\ Len(ports[i]) > 0
        /\ workers[i].files = <<FileA, FileJs, FileB>>
        /\ ports[i][1].invalidFiles = <<FileJs>>
        /\ [k \in 1..Len(ports[i][1].sequences) |-> ports[i][1].sequences[k].file]
               = <<FileA, FileB>>

====
